---- MODULE Spec2Model ----
(***************************************************************************)
(* Genesis assembly of the ChainX node (cli/src/chain_spec.rs) and the     *)
(* fee record composition of xpallet-transaction-fee (src/types.rs).       *)
(*                                                                         *)
(* Both are pure computations.  A behaviour of the model is one call: the  *)
(* initial state is the process before the call, and each action is one    *)
(* entry point applied to inputs drawn from bounded sets; the state after  *)
(* the action holds the inputs of the call and what it returned.           *)
(*                                                                         *)
(* Balance is u128 in the program.  The model counts balances in multiples *)
(* of one DOLLARS and uses a reduced decimal exponent so that every        *)
(* product stays inside the integers of the model checker; no input of the *)
(* model reaches the width of the type.                                    *)
(***************************************************************************)
EXTENDS Integers, Sequences, FiniteSets, TLC

VARIABLES op, args, outcome, genesis, fee_details, balance_out

vars == <<op, args, outcome, genesis, fee_details, balance_out>>

-----------------------------------------------------------------------------
(* Bounds of the model *)

\* longest list of initial authority tuples of a generic call
MaxAuthorities == 2
\* longest native endowment table of a generic call
MaxEndowed == 3
\* longest list of trustee triples of a generic call
MaxTrustees == 2
\* largest component of a fee record
MaxFee == 2
\* the unit of the runtimes' currency constants, counted in model units
DOLLARS == 1
DEV_DOLLARS == 1
\* decimal exponent of the native currency, reduced for the model
PCX_DECIMALS == 2
\* width in bits of Balance (u128 in the program), reduced for the model
BalanceBits == 28

-----------------------------------------------------------------------------
(* Option<T>: None is the empty sequence, Some(x) the one-element sequence *)

None == <<>>

Some(x) == <<x>>

SeqUpTo(S, n) == UNION {[1..k -> S] : k \in 0..n}

-----------------------------------------------------------------------------
(* Keys and accounts *)

\* asset id of the native currency
PCX == 1

\* TPublic::Pair::from_string("//seed").public(): one key per scheme and seed
get_from_seed(scheme, seed) == <<scheme, "//" \o seed>>

\* AccountPublic::from(key).into_account()
into_account(key) == <<"AccountId32", key[2]>>

get_account_id_from_seed(seed) == into_account(get_from_seed("sr25519", seed))

\* hex!["..."].into()
hex_account(h) == <<"AccountId32", h>>

\* hex!["..."].unchecked_into()
hex_key(scheme, h) == <<scheme, h>>

authority_keys_from_seed(seed) ==
    << <<get_account_id_from_seed(seed), seed>>,
       get_from_seed("babe", seed),
       get_from_seed("grandpa", seed),
       get_from_seed("im_online", seed),
       get_from_seed("authority_discovery", seed) >>

\* Balance is an unsigned integer of BalanceBits bits
BalanceModulus == 2 ^ BalanceBits

\* whether 10_u128.pow(decimals) or the product leaves the range of Balance:
\* a build with overflow checks panics there, a build without them wraps
balance_overflows(input, decimals) ==
    \/ 10 ^ decimals >= BalanceModulus
    \/ input * (10 ^ decimals) >= BalanceModulus

\* input * 10_u128.pow(decimals as u32), as the call returns it
balance(input, decimals) ==
    (input * ((10 ^ decimals) % BalanceModulus)) % BalanceModulus

\* endowed_gen![(seed, value), ...]: the map {PCX -> [(account, balance(value))]}
endowed_gen(table) ==
    [id \in {PCX} |->
        [i \in 1..Len(table) |->
            <<get_account_id_from_seed(table[i][1]), balance(table[i][2], PCX_DECIMALS)>>]]

-----------------------------------------------------------------------------
(* Pieces shared by build_genesis and mainnet_genesis *)

Min(a, b) == IF a <= b THEN a ELSE b

\* Iterator::take
take(s, n) == SubSeq(s, 1, Min(n, Len(s)))

\* BTreeMap::remove and BTreeMap::insert
btree_remove(m, k) == [id \in DOMAIN m \ {k} |-> m[id]]

btree_insert(m, k, v) == [id \in DOMAIN m \cup {k} |-> IF id = k THEN v ELSE m[id]]

\* validators_of collecting the authorities in reverse order
validators_of_reversed(initial_authorities, staking_locked) ==
    [i \in 1..Len(initial_authorities) |->
        LET x == initial_authorities[Len(initial_authorities) + 1 - i]
        IN  <<x[1][1], x[1][2], staking_locked>>]

\* .map(|((validator, referral), _, _, _, _)| (validator, referral, STAKING_LOCKED))
validators_of(initial_authorities, staking_locked) ==
    [i \in 1..Len(initial_authorities) |->
        <<initial_authorities[i][1][1], initial_authorities[i][1][2], staking_locked>>]

\* accumulate_endowed leaving out the last authority tuple
RECURSIVE accumulate_endowed_short(_, _)
accumulate_endowed_short(initial_authorities, staking_locked) ==
    IF Len(initial_authorities) <= 1
    THEN 0
    ELSE accumulate_endowed_short(Tail(initial_authorities), staking_locked)
         + staking_locked

\* initial_authorities_endowed += STAKING_LOCKED, once per authority tuple
RECURSIVE accumulate_endowed(_, _)
accumulate_endowed(initial_authorities, staking_locked) ==
    IF initial_authorities = <<>>
    THEN 0
    ELSE accumulate_endowed(Tail(initial_authorities), staking_locked) + staking_locked

\* dev_session_keys / malan_session_keys: the struct is filled field by name
session_keys(babe, grandpa, im_online, authority_discovery) ==
    [grandpa |-> grandpa, babe |-> babe, im_online |-> im_online,
     authority_discovery |-> authority_discovery]

\* session_config_keys passing the babe and grandpa keys in each other's place
session_config_keys_swapped(initial_authorities) ==
    [i \in 1..Len(initial_authorities) |->
        LET x == initial_authorities[i]
        IN  <<x[1][1], x[1][1], session_keys(x[3], x[2], x[4], x[5])>>]

\* pallet_session keys: (account, validator id, session keys) per authority
session_config_keys(initial_authorities) ==
    [i \in 1..Len(initial_authorities) |->
        LET x == initial_authorities[i]
        IN  <<x[1][1], x[1][1], session_keys(x[2], x[3], x[4], x[5])>>]

\* trustee_accounts taking the hot key (i.2) of each entry instead of i.0
trustee_accounts_hot_key(trustee_params) ==
    [i \in 1..Len(trustee_params) |-> trustee_params[i][3]]

\* trustee_params.iter().map(|i| (i.0).clone()).collect()
trustee_accounts(trustee_params) ==
    [i \in 1..Len(trustee_params) |-> trustee_params[i][1]]

\* find_btc_genesis_trustees falling back to an empty list (unwrap_or_default)
find_btc_genesis_trustees_or_default(trustees) ==
    LET hits == {i \in 1..Len(trustees) : trustees[i][1] = "Bitcoin"}
    IN  IF hits = {}
        THEN Some(<<>>)
        ELSE LET first == CHOOSE i \in hits : \A j \in hits : i <= j
             IN  Some([i \in 1..Len(trustees[first][3]) |-> trustees[first][3][i][1]])

\* trustees.iter().find_map(..): the first triple tagged Bitcoin, if any
find_btc_genesis_trustees(trustees) ==
    LET hits == {i \in 1..Len(trustees) : trustees[i][1] = "Bitcoin"}
    IN  IF hits = {}
        THEN None
        ELSE LET first == CHOOSE i \in hits : \A j \in hits : i <= j
             IN  Some(trustee_accounts(trustees[first][3]))

-----------------------------------------------------------------------------
(* build_genesis *)

ENDOWMENT == 10000000 * DEV_DOLLARS

STASH == 100 * DEV_DOLLARS

DEV_STAKING_LOCKED == 1000 * DEV_DOLLARS

\* endowed.get(&PCX).iter().map(|(k, _)| k)
endowed_accounts_of(pcx_endowed) ==
    [i \in 1..Len(pcx_endowed) |-> pcx_endowed[i][1]]

\* endowed.get(&PCX).iter().map(|(k, _)| (k, ENDOWMENT))
dev_balances(pcx_endowed) ==
    [i \in 1..Len(pcx_endowed) |-> <<pcx_endowed[i][1], ENDOWMENT>>]

\* num_members rounding down: num_endowed_accounts / 2
num_members_rounded_down(num_endowed_accounts) == num_endowed_accounts \div 2

\* (num_endowed_accounts + 1) / 2
num_members(num_endowed_accounts) == (num_endowed_accounts + 1) \div 2

\* dev_validator_count off by one
dev_validator_count_off_by_one == 50 - 1

\* xpallet_mining_staking.validator_count of build_genesis
dev_validator_count == 50

phragmen_members_of(endowed_accounts) ==
    LET members == take(endowed_accounts, num_members(Len(endowed_accounts)))
    IN  [i \in 1..Len(members) |-> <<members[i], STASH>>]

tech_comm_members_of(endowed_accounts) ==
    take(endowed_accounts, num_members(Len(endowed_accounts)))

\* The value build_genesis returns, or None when one of its expect() panics.
build_genesis(initial_authorities, root_key, vesting_account, endowed, trustees) ==
    IF PCX \notin DOMAIN endowed
    THEN None
    ELSE
    LET endowed_accounts == endowed_accounts_of(endowed[PCX])
        balances == dev_balances(endowed[PCX])
        phragmen_members == phragmen_members_of(endowed_accounts)
        tech_comm_members == tech_comm_members_of(endowed_accounts)
        assets_endowed == btree_remove(endowed, PCX)
        initial_authorities_endowed ==
            accumulate_endowed(initial_authorities, DEV_STAKING_LOCKED)
        validators == validators_of(initial_authorities, DEV_STAKING_LOCKED)
        btc_genesis_trustees == find_btc_genesis_trustees(trustees)
    IN  IF btc_genesis_trustees = None
        THEN None
        ELSE Some(
          [pallet_collective_Instance2 |-> [members |-> tech_comm_members],
           pallet_elections_phragmen |-> [members |-> phragmen_members],
           pallet_session |-> [keys |-> session_config_keys(initial_authorities)],
           pallet_balances |-> [balances |-> balances],
           pallet_sudo |-> [key |-> root_key],
           xpallet_assets |-> [endowed |-> assets_endowed],
           xpallet_gateway_common |-> [trustees |-> trustees],
           xpallet_gateway_bitcoin |-> [genesis_trustees |-> btc_genesis_trustees[1]],
           xpallet_mining_staking |->
               [validators |-> validators,
                validator_count |-> dev_validator_count,
                sessions_per_era |-> 12,
                vesting_account |-> vesting_account,
                minimum_penalty |-> 2 * DOLLARS],
           xpallet_genesis_builder |->
               [initial_authorities_endowed |-> initial_authorities_endowed,
                root_endowed |-> 0]])

-----------------------------------------------------------------------------
(* mainnet_genesis *)

\* STAKING_LOCKED of mainnet_genesis below both candidate requirements
MAINNET_STAKING_LOCKED_too_low == 10 * DOLLARS

MAINNET_STAKING_LOCKED == 100000 * DOLLARS

ROOT_ENDOWED == 10000000 * DOLLARS

mainnet_tech_comm_members ==
    << hex_account("485bf22c979d4a61643f57a2006ff4fb7447a2a8ed905997c5f6b0230f39b860"),
       hex_account("682ee67d1c6f6c5db7b3f155f6c31ccadcc373a1178d0fd8e1d2391075e8b424"),
       hex_account("2e2b928d39b7a9c8688509927e17031001fab604557db093ead5069474e0584e"),
       hex_account("e5d8bb656b124beb40990ef9346c441f888981ec7e0d4c55c9c72c176aec5290") >>

\* mainnet_balances pushing the root account twice instead of the fixed account
mainnet_balances_root_twice(initial_authorities, root_key) ==
    [i \in 1..Len(initial_authorities) |->
        <<initial_authorities[i][1][1], MAINNET_STAKING_LOCKED>>]
    \o << <<root_key, ROOT_ENDOWED>>, <<root_key, ROOT_ENDOWED>> >>

\* one (validator, STAKING_LOCKED) per authority, then the root account and
\* the fixed account, each with ROOT_ENDOWED
mainnet_balances(initial_authorities, root_key) ==
    [i \in 1..Len(initial_authorities) |->
        <<initial_authorities[i][1][1], MAINNET_STAKING_LOCKED>>]
    \o << <<root_key, ROOT_ENDOWED>>,
          <<hex_account("682ee67d1c6f6c5db7b3f155f6c31ccadcc373a1178d0fd8e1d2391075e8b424"),
            ROOT_ENDOWED>> >>

\* BTreeMap::new() followed by insert(1, balances.clone())
mainnet_assets_endowed(balances) == btree_insert(<<>>, 1, balances)

\* The value mainnet_genesis returns, or None when its expect() panics.
mainnet_genesis(initial_authorities, root_key, vesting_account, trustees) ==
    LET initial_authorities_len == Len(initial_authorities)
        balances == mainnet_balances(initial_authorities, root_key)
        initial_authorities_endowed == initial_authorities_len * MAINNET_STAKING_LOCKED
        validators == validators_of(initial_authorities, MAINNET_STAKING_LOCKED)
        assets_endowed == mainnet_assets_endowed(balances)
        btc_genesis_trustees == find_btc_genesis_trustees(trustees)
    IN  IF btc_genesis_trustees = None
        THEN None
        ELSE Some(
          [pallet_collective_Instance2 |-> [members |-> mainnet_tech_comm_members],
           pallet_elections_phragmen |-> [members |-> <<>>],
           pallet_session |-> [keys |-> session_config_keys(initial_authorities)],
           pallet_balances |-> [balances |-> balances],
           pallet_sudo |-> [key |-> root_key],
           xpallet_assets |-> [endowed |-> assets_endowed],
           xpallet_gateway_common |-> [trustees |-> trustees],
           xpallet_gateway_bitcoin |-> [genesis_trustees |-> btc_genesis_trustees[1]],
           xpallet_mining_staking |->
               [validators |-> validators,
                validator_count |-> initial_authorities_len,
                sessions_per_era |-> 12,
                vesting_account |-> vesting_account,
                minimum_penalty |-> 100 * DOLLARS,
                candidate_requirement |-> <<100 * DOLLARS, 1000 * DOLLARS>>],
           xpallet_genesis_builder |->
               [root_endowed |-> ROOT_ENDOWED,
                initial_authorities_endowed |-> initial_authorities_endowed]])

-----------------------------------------------------------------------------
(* FeeDetails of xpallet-transaction-fee *)

\* pallet_transaction_payment::InclusionFee::inclusion_fee
inclusion_fee_of(i) == i.base_fee + i.len_fee + i.adjusted_weight_fee

\* pallet_transaction_payment::FeeDetails::final_fee
base_final_fee(base) ==
    (IF base.inclusion_fee = None THEN 0 ELSE inclusion_fee_of(base.inclusion_fee[1]))
    + base.tip

\* From<pallet_transaction_payment::FeeDetails<Balance>> for FeeDetails<Balance>
from_base(details) ==
    [inclusion_fee |-> details.inclusion_fee,
     tip |-> details.tip,
     extra_fee |-> 0,
     final_fee |-> 0]

add_extra_fee_or_not(extra_fee, base) ==
    IF extra_fee # None
    THEN LET fee == extra_fee[1]
             total == base_final_fee(base)
         IN  [from_base(base) EXCEPT !.extra_fee = fee, !.final_fee = total + fee]
    ELSE [from_base(base) EXCEPT !.extra_fee = 0, !.final_fee = base.tip]

-----------------------------------------------------------------------------
(* Profiles *)

btc_trustee(seed) ==
    <<get_account_id_from_seed(seed), seed, <<"hot", seed>>, <<"cold", seed>>>>

btc_trustee_config == [min_trustee_count |-> 3, max_trustee_count |-> 15]

\* crate::genesis::bitcoin::local_testnet_trustees()
local_testnet_trustees ==
    << <<"Bitcoin", btc_trustee_config,
         <<btc_trustee("Alice"), btc_trustee("Bob"), btc_trustee("Charlie")>> >> >>

\* crate::genesis::bitcoin::benchmarks_trustees()
benchmarks_trustees ==
    << <<"Bitcoin", btc_trustee_config,
         <<btc_trustee("Alice"), btc_trustee("Bob"), btc_trustee("Charlie")>> >> >>

endowed_balance == 50 * DEV_DOLLARS

development_endowed ==
    endowed_gen(<< <<"Alice", endowed_balance>>, <<"Bob", endowed_balance>>,
                   <<"Alice//stash", endowed_balance>>, <<"Bob//stash", endowed_balance>> >>)

local_testnet_endowed ==
    endowed_gen(<< <<"Alice", endowed_balance>>, <<"Bob", endowed_balance>>,
                   <<"Charlie", endowed_balance>>, <<"Dave", endowed_balance>>,
                   <<"Eve", endowed_balance>>, <<"Ferdie", endowed_balance>>,
                   <<"Alice//stash", endowed_balance>>, <<"Bob//stash", endowed_balance>>,
                   <<"Charlie//stash", endowed_balance>>, <<"Dave//stash", endowed_balance>>,
                   <<"Eve//stash", endowed_balance>>, <<"Ferdie//stash", endowed_balance>> >>)

development_args ==
    [initial_authorities |-> <<authority_keys_from_seed("Alice")>>,
     root_key |-> get_account_id_from_seed("Alice"),
     vesting_account |-> get_account_id_from_seed("vesting"),
     endowed |-> development_endowed,
     trustees |-> local_testnet_trustees]

benchmarks_args ==
    [initial_authorities |-> <<authority_keys_from_seed("Alice")>>,
     root_key |-> get_account_id_from_seed("Alice"),
     vesting_account |-> get_account_id_from_seed("vesting"),
     endowed |-> development_endowed,
     trustees |-> benchmarks_trustees]

local_testnet_args ==
    [initial_authorities |->
         <<authority_keys_from_seed("Alice"), authority_keys_from_seed("Bob")>>,
     root_key |-> get_account_id_from_seed("Alice"),
     vesting_account |-> get_account_id_from_seed("vesting"),
     endowed |-> local_testnet_endowed,
     trustees |-> local_testnet_trustees]

fork_root_key ==
    hex_account("485bf22c979d4a61643f57a2006ff4fb7447a2a8ed905997c5f6b0230f39b860")

fork_initial_authorities ==
    << << <<hex_account("1880c73bc154852f900b5db6b3ee9d98c9dd39120f9702ded76f07af558b7d53"),
            "hacpy1">>,
          hex_key("babe", "0252636a2254619db458c1fe40e91ca39a7bb52bf8c99bd8a4efef458360ba0b"),
          hex_key("grandpa", "a78577fd7eacdf075bd80fb8dcdbc7c745a43bb2e0785a5a2a9cb8ab142cd9b3"),
          hex_key("im_online", "025c76d4c6369a8c8cb9a74dd91c11d233c0b15767359b404d2f4032f7129302"),
          hex_key("authority_discovery",
                  "36782cdf9ee4a785e783580c10cfb9642c9ee11571521a20da22fb08de1dc870") >>,
       << <<hex_account("c2bbd792a03d62c5f917a6ca0ca6c1513201900b90b555885a26cc90cbef2455"),
            "rjman1">>,
          hex_key("babe", "1e6ffbb4f23e91fd42374d1f4e71df694645826b5fe523de83010d17a82fe873"),
          hex_key("grandpa", "a245f00894861c4d597ceaf8d195a240f87aabc5d4e7a6b0a8c5087bc9958e5f"),
          hex_key("im_online", "c25d04e2d13cfbbed3323dbb69cebe52e4a57f4d29a4e0e1fe4c982df124a643"),
          hex_key("authority_discovery",
                  "c48b6f712581ca56eacc992071abf5224c95e955d1285698e6a2fafae429b80a") >> >>

fork_args ==
    [initial_authorities |-> fork_initial_authorities,
     root_key |-> fork_root_key,
     vesting_account |-> fork_root_key,
     trustees |-> local_testnet_trustees]

-----------------------------------------------------------------------------
(* Inputs of the generic calls *)

AuthorityTuples == {authority_keys_from_seed("Alice"), authority_keys_from_seed("Bob")}

RootKeys == {get_account_id_from_seed("Alice"), fork_root_key}

VestingAccounts == {get_account_id_from_seed("vesting")}

EndowedEntries ==
    { <<get_account_id_from_seed("Alice"), ENDOWMENT>>,
      <<get_account_id_from_seed("Bob"), balance(endowed_balance, PCX_DECIMALS)>>,
      <<get_account_id_from_seed("Charlie"), balance(endowed_balance, PCX_DECIMALS)>> }

OtherAssetEndowed == << <<get_account_id_from_seed("Alice"), 7>> >>

\* endowment maps with and without a PCX table, with and without another asset
EndowedMaps ==
    LET tables == SeqUpTo(EndowedEntries, MaxEndowed)
    IN  {[id \in {PCX} |-> t] : t \in tables}
        \cup {[id \in {PCX, PCX + 1} |-> IF id = PCX THEN t ELSE OtherAssetEndowed] :
                 t \in tables}
        \cup {<<>>, [id \in {PCX + 1} |-> OtherAssetEndowed]}

TrusteeTriples ==
    { <<"Bitcoin", btc_trustee_config, <<>> >>,
      <<"Bitcoin", btc_trustee_config, <<btc_trustee("Alice"), btc_trustee("Bob")>> >>,
      <<"Bitcoin", btc_trustee_config, <<btc_trustee("Bob"), btc_trustee("Bob")>> >>,
      <<"Ethereum", btc_trustee_config, <<btc_trustee("Charlie")>> >> }

InclusionFees == [base_fee : 0..MaxFee, len_fee : 0..MaxFee, adjusted_weight_fee : 0..MaxFee]

BaseFeeDetails ==
    [inclusion_fee : {None} \cup {Some(i) : i \in InclusionFees}, tip : 0..MaxFee]

ExtraFees == {None} \cup {Some(f) : f \in 0..MaxFee}

\* (input, decimals) pairs for balance(): small inputs, the inputs next to
\* the largest one that still fits, and an exponent whose power of ten does
\* not fit
BalanceCalls ==
    ((0..2) \cup {endowed_balance} \cup {BalanceModulus - 1}) \X {0}
    \cup ((0..2) \cup {endowed_balance}
          \cup {(BalanceModulus - 1) \div (10 ^ PCX_DECIMALS) + k : k \in 0..1})
         \X {PCX_DECIMALS}
    \cup (0..1) \X {9}

-----------------------------------------------------------------------------
(* The state machine: one call per behaviour *)

Init ==
    /\ op = "none"
    /\ args = None
    /\ outcome = "none"
    /\ genesis = None
    /\ fee_details = None
    /\ balance_out = None

\* a call of one of the assemblers with the inputs a, returning g
Assembled(name, a, g) ==
    /\ op = "none"
    /\ op' = name
    /\ args' = a
    /\ genesis' = g
    /\ outcome' = IF g = None THEN "panicked" ELSE "returned"
    /\ fee_details' = None
    /\ balance_out' = None

CallBuildGenesis(name, a) ==
    Assembled(name, a,
              build_genesis(a.initial_authorities, a.root_key, a.vesting_account,
                            a.endowed, a.trustees))

CallMainnetGenesis(name, a) ==
    Assembled(name, a,
              mainnet_genesis(a.initial_authorities, a.root_key, a.vesting_account,
                              a.trustees))

DevelopmentConfig == CallBuildGenesis("development_config", development_args)

BenchmarksConfig == CallBuildGenesis("benchmarks_config", benchmarks_args)

LocalTestnetConfig == CallBuildGenesis("local_testnet_config", local_testnet_args)

ForkConfigRaw == CallMainnetGenesis("fork_config_raw", fork_args)

BuildGenesis ==
    /\ op = "none"
    /\ \E ia \in SeqUpTo(AuthorityTuples, MaxAuthorities), rk \in RootKeys,
       va \in VestingAccounts, e \in EndowedMaps,
       t \in SeqUpTo(TrusteeTriples, MaxTrustees) :
        CallBuildGenesis("build_genesis",
                         [initial_authorities |-> ia, root_key |-> rk,
                          vesting_account |-> va, endowed |-> e, trustees |-> t])

MainnetGenesis ==
    /\ op = "none"
    /\ \E ia \in SeqUpTo(AuthorityTuples, MaxAuthorities), rk \in RootKeys,
       va \in VestingAccounts, t \in SeqUpTo(TrusteeTriples, MaxTrustees) :
        CallMainnetGenesis("mainnet_genesis",
                           [initial_authorities |-> ia, root_key |-> rk,
                            vesting_account |-> va, trustees |-> t])

AddExtraFeeOrNot ==
    /\ op = "none"
    /\ \E extra_fee \in ExtraFees, base \in BaseFeeDetails :
        /\ op' = "add_extra_fee_or_not"
        /\ args' = [extra_fee |-> extra_fee, base |-> base]
        /\ fee_details' = Some(add_extra_fee_or_not(extra_fee, base))
        /\ outcome' = "returned"
        /\ genesis' = None
        /\ balance_out' = None

\* balance() applied to one input; the build decides whether an overflow
\* panics (overflow checks on) or wraps (overflow checks off)
Balance ==
    /\ op = "none"
    /\ \E call \in BalanceCalls, overflow_checks \in BOOLEAN :
        LET panics == overflow_checks /\ balance_overflows(call[1], call[2])
        IN  /\ op' = "balance"
            /\ args' = [input |-> call[1], decimals |-> call[2],
                        overflow_checks |-> overflow_checks]
            /\ balance_out' = IF panics THEN None ELSE Some(balance(call[1], call[2]))
            /\ outcome' = IF panics THEN "panicked" ELSE "returned"
            /\ genesis' = None
            /\ fee_details' = None

Next ==
    \/ DevelopmentConfig
    \/ BenchmarksConfig
    \/ LocalTestnetConfig
    \/ ForkConfigRaw
    \/ BuildGenesis
    \/ MainnetGenesis
    \/ AddExtraFeeOrNot
    \/ Balance

Spec == Init /\ [][Next]_vars

-----------------------------------------------------------------------------
(* Vocabulary of the properties *)

ByBuildGenesis ==
    op \in {"development_config", "benchmarks_config", "local_testnet_config",
            "build_genesis"}

ByMainnetGenesis == op \in {"fork_config_raw", "mainnet_genesis"}

Returned == outcome = "returned" /\ genesis # None

BuildReturned == ByBuildGenesis /\ Returned

MainnetReturned == ByMainnetGenesis /\ Returned

SnapshotReturned == BuildReturned \/ MainnetReturned

\* the snapshot of a state in which one was returned
Snapshot == genesis[1]

BitcoinEntries(trustees) == {i \in 1..Len(trustees) : trustees[i][1] = "Bitcoin"}

\* the trustee entries of the first triple tagged Bitcoin
BitcoinTrusteeParams(trustees) ==
    trustees[CHOOSE i \in BitcoinEntries(trustees) :
                 \A j \in BitcoinEntries(trustees) : i <= j][3]

StakingLockedOfAssembler ==
    IF ByBuildGenesis THEN 1000 * DEV_DOLLARS ELSE 100000 * DOLLARS

CeilHalf(n) == (n \div 2) + (n % 2)

\* the sum of the amounts of a list of (account, amount) pairs
RECURSIVE SumBalances(_)
SumBalances(s) ==
    IF s = <<>> THEN 0 ELSE s[1][2] + SumBalances(Tail(s))

-----------------------------------------------------------------------------
(* C1 *)

\* C1: for every profile assembled by build_genesis, the sum of the balances
\* of pallet_balances.balances equals the sum of the amounts declared in the
\* native endowment table.
C1_SupplyConservation ==
    BuildReturned =>
        SumBalances(Snapshot.pallet_balances.balances) = SumBalances(args.endowed[PCX])

-----------------------------------------------------------------------------
(* C2 *)

\* C2: asset id 1 is never a key of xpallet_assets.endowed, in the snapshots
\* of build_genesis as well as in those of mainnet_genesis.
C2_AssetExclusivity ==
    SnapshotReturned => 1 \notin DOMAIN Snapshot.xpallet_assets.endowed

-----------------------------------------------------------------------------
(* C3 *)

\* C3: the validator list and the session-key binding list both have as many
\* entries as the authority list, and the i-th validator account is the
\* account and the validator id of the i-th binding, which carries the four
\* keys of the i-th authority tuple.
C3_CardinalityAndBinding ==
    SnapshotReturned =>
        LET auth == args.initial_authorities
            validators == Snapshot.xpallet_mining_staking.validators
            keys == Snapshot.pallet_session.keys
        IN  /\ Len(validators) = Len(auth)
            /\ Len(keys) = Len(auth)
            /\ \A i \in 1..Len(auth) :
                 /\ validators[i][1] = keys[i][1]
                 /\ keys[i][1] = auth[i][1][1]
                 /\ keys[i][2] = auth[i][1][1]
                 /\ keys[i][3].babe = auth[i][2]
                 /\ keys[i][3].grandpa = auth[i][3]
                 /\ keys[i][3].im_online = auth[i][4]
                 /\ keys[i][3].authority_discovery = auth[i][5]

\* a snapshot built from two different authority tuples
C3_Witness ==
    /\ SnapshotReturned
    /\ Len(args.initial_authorities) = 2
    /\ args.initial_authorities[1] # args.initial_authorities[2]
    /\ Len(Snapshot.pallet_session.keys) = 2

-----------------------------------------------------------------------------
(* C4 *)

\* C4: whenever a snapshot is returned its Bitcoin genesis-trustee list is
\* non-empty and as long as the key list of the Bitcoin trustee triple; a
\* Bitcoin triple with an empty key list never yields a snapshot.
C4_TrusteeNonEmpty ==
    SnapshotReturned =>
        /\ Len(Snapshot.xpallet_gateway_bitcoin.genesis_trustees) > 0
        /\ Len(Snapshot.xpallet_gateway_bitcoin.genesis_trustees)
             = Len(BitcoinTrusteeParams(args.trustees))

-----------------------------------------------------------------------------
(* C5 *)

\* C5: when the trustee triples hold no entry tagged Bitcoin, assembly aborts
\* and no snapshot is returned.
C5_MissingBitcoinIsFatal ==
    ((ByBuildGenesis \/ ByMainnetGenesis) /\ BitcoinEntries(args.trustees) = {}) =>
        (outcome = "panicked" /\ genesis = None)

\* a call that had everything but a Bitcoin entry, and panicked
C5_Witness ==
    /\ op = "build_genesis"
    /\ PCX \in DOMAIN args.endowed
    /\ Len(args.trustees) > 0
    /\ BitcoinEntries(args.trustees) = {}
    /\ outcome = "panicked"

-----------------------------------------------------------------------------
(* C6 *)

\* C6 as stated: the validator_count scalar equals the number of initial
\* authority tuples of the profile, 1 for development and 2 for local-testnet.
C6_ValidatorCountIsAuthorityCount ==
    (op \in {"development_config", "local_testnet_config"} /\ Returned) =>
        /\ Snapshot.xpallet_mining_staking.validator_count
             = Len(args.initial_authorities)
        /\ op = "development_config" =>
             Snapshot.xpallet_mining_staking.validator_count = 1
        /\ op = "local_testnet_config" =>
             Snapshot.xpallet_mining_staking.validator_count = 2

\* C6 amended: it is the validator list that has as many entries as the
\* profile has authority tuples (1 for development, 2 for local-testnet);
\* the validator_count scalar of every build_genesis snapshot is the fixed 50,
\* and only mainnet_genesis sets it to the number of authority tuples.
C6_ValidatorCountAmended ==
    /\ BuildReturned =>
         /\ Snapshot.xpallet_mining_staking.validator_count = 50
         /\ Len(Snapshot.xpallet_mining_staking.validators)
              = Len(args.initial_authorities)
    /\ (op = "development_config" /\ Returned) =>
         Len(Snapshot.xpallet_mining_staking.validators) = 1
    /\ (op = "local_testnet_config" /\ Returned) =>
         Len(Snapshot.xpallet_mining_staking.validators) = 2
    /\ MainnetReturned =>
         Snapshot.xpallet_mining_staking.validator_count
           = Len(args.initial_authorities)

\* the local-testnet snapshot, with its two validators
C6_Witness ==
    /\ op = "local_testnet_config"
    /\ Returned
    /\ Len(Snapshot.xpallet_mining_staking.validators) = 2

-----------------------------------------------------------------------------
(* C7 *)

\* C7: for a native endowment table of n accounts the phragmen members are the
\* first ceil(n/2) endowed accounts in table order, each with STASH, and the
\* technical committee is the same accounts in the same order; local-testnet
\* has 6 members.
C7_PhragmenMembers ==
    BuildReturned =>
        LET table == args.endowed[PCX]
            k == CeilHalf(Len(table))
            phragmen == Snapshot.pallet_elections_phragmen.members
            tech_comm == Snapshot.pallet_collective_Instance2.members
        IN  /\ Len(phragmen) = k
            /\ Len(tech_comm) = k
            /\ \A i \in 1..k :
                 /\ phragmen[i] = <<table[i][1], 100 * DEV_DOLLARS>>
                 /\ tech_comm[i] = table[i][1]
            /\ op = "local_testnet_config" => Len(phragmen) = 6

\* a snapshot built from a table of three accounts, two of them members
C7_Witness ==
    /\ op = "build_genesis"
    /\ Returned
    /\ Len(args.endowed[PCX]) = 3
    /\ Len(Snapshot.pallet_elections_phragmen.members) = 2

-----------------------------------------------------------------------------
(* C8 *)

\* C8: add_extra_fee_or_not returns a record whose final_fee is the base
\* record's inclusion fee (0 when absent) plus its tip plus the extra fee (0
\* when None), whose extra_fee is the given extra fee (0 when None), and whose
\* inclusion_fee and tip are those of the base record.
C8_FinalFeeComposition ==
    op = "add_extra_fee_or_not" =>
        LET base == args.base
            extra == IF args.extra_fee = None THEN 0 ELSE args.extra_fee[1]
            inclusion ==
                IF base.inclusion_fee = None
                THEN 0
                ELSE base.inclusion_fee[1].base_fee + base.inclusion_fee[1].len_fee
                     + base.inclusion_fee[1].adjusted_weight_fee
            details == fee_details[1]
        IN  /\ details.final_fee = inclusion + base.tip + extra
            /\ details.extra_fee = extra
            /\ details.inclusion_fee = base.inclusion_fee
            /\ details.tip = base.tip

-----------------------------------------------------------------------------
(* C9 *)

\* C9: the Bitcoin genesis-trustee list is the first component of each trustee
\* entry of the Bitcoin triple, in order, nothing dropped, added or merged;
\* and the full list of trustee triples reaches xpallet_gateway_common as given.
C9_TrusteeExtraction ==
    SnapshotReturned =>
        LET params == BitcoinTrusteeParams(args.trustees)
            genesis_trustees == Snapshot.xpallet_gateway_bitcoin.genesis_trustees
        IN  /\ Len(genesis_trustees) = Len(params)
            /\ \A i \in 1..Len(params) : genesis_trustees[i] = params[i][1]
            /\ Snapshot.xpallet_gateway_common.trustees = args.trustees

\* a snapshot whose Bitcoin triple names the same trustee twice, next to a
\* triple of another chain
C9_Witness ==
    /\ SnapshotReturned
    /\ Len(args.trustees) = 2
    /\ args.trustees[1][1] # "Bitcoin"
    /\ Len(Snapshot.xpallet_gateway_bitcoin.genesis_trustees) = 2
    /\ Snapshot.xpallet_gateway_bitcoin.genesis_trustees[1]
         = Snapshot.xpallet_gateway_bitcoin.genesis_trustees[2]

-----------------------------------------------------------------------------
(* C10 *)

\* C10: the i-th validator carries the account and referral id of the i-th
\* authority tuple (no re-sorting, no deduplication) and every validator of a
\* snapshot carries the STAKING_LOCKED of its assembler.
C10_StableValidatorOrder ==
    SnapshotReturned =>
        LET auth == args.initial_authorities
            validators == Snapshot.xpallet_mining_staking.validators
        IN  /\ Len(validators) = Len(auth)
            /\ \A i \in 1..Len(auth) :
                 /\ validators[i][1] = auth[i][1][1]
                 /\ validators[i][2] = auth[i][1][2]
                 /\ validators[i][3] = StakingLockedOfAssembler

\* a snapshot whose authorities came unsorted: Bob before Alice
C10_Witness ==
    /\ SnapshotReturned
    /\ Len(args.initial_authorities) = 2
    /\ args.initial_authorities[1][1][2] = "Bob"
    /\ args.initial_authorities[2][1][2] = "Alice"
    /\ Snapshot.xpallet_mining_staking.validators[1][2] = "Bob"

-----------------------------------------------------------------------------
(* C11 *)

\* C11: the lookup of the Bitcoin trustee triple succeeds only when exactly
\* one triple is tagged Bitcoin; when two or more are passed, no snapshot is
\* returned.
C11_ExactlyOneBitcoinEntry ==
    (ByBuildGenesis \/ ByMainnetGenesis) =>
        (Returned => Cardinality(BitcoinEntries(args.trustees)) = 1)

-----------------------------------------------------------------------------
(* C12 *)

\* C12: every balance computation of genesis assembly either yields the exact
\* mathematical result or aborts: balance() returns input * 10^decimals or
\* panics, and the initial_authorities_endowed of a snapshot is the exact
\* number of authorities times STAKING_LOCKED; no wrapped value is returned.
C12_NoSilentWraparound ==
    /\ op = "balance" =>
         \/ outcome = "panicked"
         \/ balance_out = Some(args.input * (10 ^ args.decimals))
    /\ SnapshotReturned =>
         Snapshot.xpallet_genesis_builder.initial_authorities_endowed
           = Len(args.initial_authorities) * StakingLockedOfAssembler

-----------------------------------------------------------------------------
(* C13 *)

\* C13: every validator of every snapshot has a locked stake above 0, and
\* every validator of a mainnet_genesis snapshot has a locked stake of at
\* least both candidate requirements (self bonded, total bonded) of that
\* snapshot.
C13_MinimumStake ==
    SnapshotReturned =>
        LET staking == Snapshot.xpallet_mining_staking
        IN  \A i \in 1..Len(staking.validators) :
              /\ staking.validators[i][3] > 0
              /\ ByMainnetGenesis =>
                   /\ staking.validators[i][3] >= staking.candidate_requirement[1]
                   /\ staking.validators[i][3] >= staking.candidate_requirement[2]

\* a mainnet_genesis snapshot with two validators and a positive requirement
C13_Witness ==
    /\ MainnetReturned
    /\ Len(Snapshot.xpallet_mining_staking.validators) = 2
    /\ Snapshot.xpallet_mining_staking.candidate_requirement[2] > 0

-----------------------------------------------------------------------------
(* C14 *)

\* the sum of the locked stakes of a validator list
RECURSIVE SumStakes(_)
SumStakes(validators) ==
    IF validators = <<>> THEN 0 ELSE validators[1][3] + SumStakes(Tail(validators))

\* what the ledger entries of one account add up to
RECURSIVE Credited(_, _)
Credited(balances, account) ==
    IF balances = <<>>
    THEN 0
    ELSE (IF balances[1][1] = account THEN balances[1][2] ELSE 0)
         + Credited(Tail(balances), account)

\* C14: in every snapshot initial_authorities_endowed is the sum of the locked
\* stakes of the validator list, i.e. the number of authorities times
\* STAKING_LOCKED, 0 for no authority; in a mainnet_genesis snapshot the
\* ledger lists every validator account with exactly its locked stake (the
\* i-th entry for the i-th validator) and then the root account with exactly
\* root_endowed, which for the fork profile is all these accounts are credited.
C14_AuthorityEndowment ==
    SnapshotReturned =>
        LET validators == Snapshot.xpallet_mining_staking.validators
            n == Len(validators)
            builder == Snapshot.xpallet_genesis_builder
            balances == Snapshot.pallet_balances.balances
        IN  /\ builder.initial_authorities_endowed = SumStakes(validators)
            /\ builder.initial_authorities_endowed = n * StakingLockedOfAssembler
            /\ n = 0 => builder.initial_authorities_endowed = 0
            /\ ByMainnetGenesis =>
                 /\ Len(balances) > n
                 /\ \A i \in 1..n :
                      balances[i] = <<validators[i][1], validators[i][3]>>
                 /\ balances[n + 1] = <<Snapshot.pallet_sudo.key, builder.root_endowed>>
            /\ op = "fork_config_raw" =>
                 /\ \A i \in 1..n :
                      Credited(balances, validators[i][1]) = validators[i][3]
                 /\ Credited(balances, Snapshot.pallet_sudo.key) = builder.root_endowed

\* a snapshot with two validators
C14_Witness ==
    /\ SnapshotReturned
    /\ Len(Snapshot.xpallet_mining_staking.validators) = 2
    /\ Snapshot.xpallet_genesis_builder.initial_authorities_endowed
         = 2 * StakingLockedOfAssembler

-----------------------------------------------------------------------------
(* C15 *)

ByProfile ==
    op \in {"development_config", "benchmarks_config", "local_testnet_config",
            "fork_config_raw"}

\* no account is named by two entries of a list of tuples led by the account
DistinctAccounts(entries) ==
    \A i, j \in 1..Len(entries) : i # j => entries[i][1] # entries[j][1]

\* C15: in the snapshot of every profile (development, benchmark,
\* local-testnet, live/fork) the accounts of pallet_balances.balances are
\* pairwise distinct and the validator accounts are pairwise distinct.
C15_DistinctAccounts ==
    (ByProfile /\ Returned) =>
        /\ DistinctAccounts(Snapshot.pallet_balances.balances)
        /\ DistinctAccounts(Snapshot.xpallet_mining_staking.validators)

\* the fork snapshot: two validators, the root account and the fixed account
C15_Witness ==
    /\ op = "fork_config_raw"
    /\ Returned
    /\ Len(Snapshot.pallet_balances.balances) = 4
    /\ Len(Snapshot.xpallet_mining_staking.validators) = 2

\* the same of every call of the assemblers, whatever the caller passes
DistinctAccountsOfEveryCall ==
    SnapshotReturned =>
        /\ DistinctAccounts(Snapshot.pallet_balances.balances)
        /\ DistinctAccounts(Snapshot.xpallet_mining_staking.validators)

====
